---- MODULE Spec2Model ----
(***************************************************************************)
(* Model of the rm690b0 bitmap font codec:                                 *)
(*   fonts/ttf_to_rm690b0.py     (encoder: render, pack, serialize)        *)
(*   fonts/test_converted_font.py (decoder: parse, validate, visualize)    *)
(*                                                                         *)
(* SpecPack drives one glyph through render_character, rows_to_bytes and   *)
(* the two visualize_character functions.  Spec drives a whole run of the  *)
(* encoder's main followed by test_font_file on the written file.          *)
(*                                                                         *)
(* and of examples/snake_game.py (Snake, Food, play_round, main):          *)
(* SpecSnake plays rounds on a small grid, SpecScore follows the score,    *)
(* best score and speed through long rounds.                               *)
(***************************************************************************)
EXTENDS Integers, Sequences, FiniteSets, TLC

VARIABLES
    pc,          \* position of the running script
    width,       \* cell width of the glyph being packed (SpecPack)
    height,      \* cell height of the glyph being packed (SpecPack)
    img,         \* PIL image "L": coverage sample per pixel <<x, y>>
    rows,        \* result of render_character
    byte_data,   \* result of rows_to_bytes
    lines,       \* result of visualize_character: rows of on/off cells
    preview_lines, \* result of the encoder's visualize_character
    inline_rows,   \* rows printed by the side-by-side renderer of --all
    args,        \* command line of the encoder (argparse namespace)
    characters,  \* encoder: list of character dictionaries built so far
    file,        \* the header file on disk, as tokens (<<>>: not written)
    hand,        \* what the author of a hand-written file put into it
    font_data,   \* decoder: result of parse_font_header
    errors,      \* decoder: violations collected by the validation
    out,         \* decoder: what test_font_file printed about the checks
    display,     \* glyphs looked up and shown by --preview, --char, --all
    rc,          \* exit status of the script that ran last (None: none yet)
    again,       \* a second call of generate_header_file: source name, output
    segments,    \* Snake.segments, head first, as <<x, y>> cells
    direction,   \* Snake.direction: the direction the last move applied
    next_direction, \* Snake.next_direction
    grow_pending,   \* Snake.grow_pending
    food,        \* Food.position
    score,       \* play_round: score
    local_best,  \* play_round: local_best
    speed,       \* play_round: speed, in half moves per second
    best_score,  \* main: best_score
    eaten        \* number of foods the head has reached in this round

packVars == <<width, height, img, rows, byte_data, lines, preview_lines, inline_rows>>

encVars == <<args, characters>>

decVars == <<font_data, errors, out, rc>>

snakeVars == <<segments, direction, next_direction, grow_pending, food>>

scoreVars == <<score, local_best, speed, best_score, eaten>>

fontVars == <<packVars, encVars, file, hand, display, decVars, again>>

vars == <<pc, fontVars, snakeVars, scoreVars>>

-----------------------------------------------------------------------------
(* Bounds of the model. *)

MaxWidth == 10
MaxHeight == 2
MaxInk == 2
MaxCount == 2
MaxEntries == 2
MaxEditInk == 1
MaxNeighbours == 2
MaxPlain == 130
Cols == 4
Rows == 3
MaxEaten == 2
MaxFoods == 26

(* Coverage samples the rasterizer may leave in a pixel. *)
Samples == {0, 128, 129}

-----------------------------------------------------------------------------
(* Integer helpers for Python's >>, <<, & and | on non-negative ints. *)

Pow2(n) == 2 ^ n

ShiftRight(v, n) == v \div Pow2(n)

ShiftLeft(v, n) == v * Pow2(n)

TestBit(v, n) == (v \div Pow2(n)) % 2 = 1

RECURSIVE BitOr(_, _)
BitOr(a, b) ==
    IF a = 0 THEN b
    ELSE IF b = 0 THEN a
    ELSE (IF a % 2 = 1 \/ b % 2 = 1 THEN 1 ELSE 0) + 2 * BitOr(a \div 2, b \div 2)

BytesPerRow(w) == (w + 7) \div 8

-----------------------------------------------------------------------------
(* render_character: threshold the image and build one value per row. *)

Threshold == 128

\* the largest value of a pixel of a mode "L" image
MaxSample == 255

RECURSIVE RowValueMirrored(_, _, _, _)
RowValueMirrored(pixels, w, y, x) ==
    IF x = w THEN 0
    ELSE LET rest == RowValueMirrored(pixels, w, y, x + 1)
         IN  IF pixels[<<x, y>>] > Threshold
             THEN BitOr(rest, ShiftLeft(1, x))
             ELSE rest

RECURSIVE RowValueMidpoint(_, _, _, _)
RowValueMidpoint(pixels, w, y, x) ==
    IF x = w THEN 0
    ELSE LET rest == RowValueMidpoint(pixels, w, y, x + 1)
         IN  IF 2 * pixels[<<x, y>>] > MaxSample
             THEN BitOr(rest, ShiftLeft(1, w - 1 - x))
             ELSE rest

RECURSIVE RowValue(_, _, _, _)
RowValue(pixels, w, y, x) ==
    IF x = w THEN 0
    ELSE LET rest == RowValue(pixels, w, y, x + 1)
         IN  IF pixels[<<x, y>>] > Threshold
             THEN BitOr(rest, ShiftLeft(1, w - 1 - x))
             ELSE rest

RenderCharacter(pixels, w, h) == [y \in 1..h |-> RowValue(pixels, w, y - 1, 0)]

-----------------------------------------------------------------------------
(* rows_to_bytes: split every row value into bytes_per_row bytes. *)

RowBytesLittleEndian(row_value, w) ==
    [b \in 1..BytesPerRow(w) |-> ShiftRight(row_value, (b - 1) * 8) % 256]

RowBytesFloor(row_value, w) ==
    [b \in 1..(w \div 8) |-> ShiftRight(row_value, ((w \div 8) - 1 - (b - 1)) * 8) % 256]

RowBytes(row_value, w) ==
    [b \in 1..BytesPerRow(w) |->
        ShiftRight(row_value, (BytesPerRow(w) - 1 - (b - 1)) * 8) % 256]

RECURSIVE RowsToBytes(_, _)
RowsToBytes(rs, w) ==
    IF rs = <<>> THEN <<>>
    ELSE RowBytes(Head(rs), w) \o RowsToBytes(Tail(rs), w)

-----------------------------------------------------------------------------
(* visualize_character (both scripts): slice, reassemble, test bits. *)

Slice(s, from, to) ==
    \* Python s[from:to], 0-based, clipped to the sequence
    LET lo == IF from < Len(s) THEN from ELSE Len(s)
        hi == IF to < Len(s) THEN to ELSE Len(s)
    IN  IF hi <= lo THEN <<>> ELSE [i \in 1..(hi - lo) |-> s[lo + i]]

RECURSIVE Reassemble(_, _, _)
Reassemble(row_bytes, bpr, i) ==
    IF i > Len(row_bytes) THEN 0
    ELSE BitOr(ShiftLeft(row_bytes[i], (bpr - 1 - (i - 1)) * 8),
               Reassemble(row_bytes, bpr, i + 1))

VisualizeCharacter(bytes, w, h) ==
    [r \in 1..h |->
        LET row_bytes == Slice(bytes, (r - 1) * BytesPerRow(w), r * BytesPerRow(w))
            row_value == Reassemble(row_bytes, BytesPerRow(w), 1)
        IN  [x \in 1..w |-> TestBit(row_value, w - 1 - (x - 1))]]

\* the encoder's visualize_character: one line of "#" and "." per row
EncoderVisualizeMirrored(bytes, w, h) ==
    [row \in 1..h |->
        LET bytes_per_row == (w + 7) \div 8
            row_bytes == Slice(bytes, (row - 1) * bytes_per_row, row * bytes_per_row)
            row_value == Reassemble(row_bytes, bytes_per_row, 1)
        IN  [x \in 1..w |-> IF TestBit(row_value, x - 1) THEN "#" ELSE "."]]

EncoderVisualize(bytes, w, h) ==
    [row \in 1..h |->
        LET bytes_per_row == (w + 7) \div 8
            row_bytes == Slice(bytes, (row - 1) * bytes_per_row, row * bytes_per_row)
            row_value == Reassemble(row_bytes, bytes_per_row, 1)
        IN  [x \in 1..w |-> IF TestBit(row_value, w - 1 - (x - 1)) THEN "#" ELSE "."]]

\* test_font_file --all: the rows printed for a group of glyphs side by
\* side, each glyph's cells ("block", "dot") followed by a space
RECURSIVE InlineRow(_, _, _, _)
InlineRow(group, w, h, row) ==
    IF group = <<>> THEN <<>>
    ELSE LET bytes_per_row == (w + 7) \div 8
             row_start == (row - 1) * bytes_per_row
             row_end == row_start + bytes_per_row
             row_bytes == Slice(Head(group).bytes, row_start, row_end)
             row_value == Reassemble(row_bytes, bytes_per_row, 1)
         IN  [x \in 1..w |-> IF TestBit(row_value, w - 1 - (x - 1))
                             THEN "block" ELSE "dot"]
             \o <<"space">>
             \o InlineRow(Tail(group), w, h, row)

InlineRows(group, w, h) == [row \in 1..h |-> InlineRow(group, w, h, row)]

-----------------------------------------------------------------------------
(* Text of the header file.  The file is a sequence of tokens, one per      *)
(* piece of text the encoder writes with one f.write; a token keeps its     *)
(* kind, an identifier (nm) and its variable parts (f) as digit or          *)
(* character strings.  Characters are code points; a digit string is a      *)
(* sequence of digit values.                                                *)

Tok(k, nm, f) == [k |-> k, nm |-> nm, f |-> f]

\* f"{n}" and f"{n:02X}": digits of n, most significant first
RECURSIVE Digits(_, _)
Digits(n, base) ==
    IF n < base THEN <<n>> ELSE Append(Digits(n \div base, base), n % base)

Dec(n) == Digits(n, 10)

Hex02(n) == IF n < 16 THEN <<0, n>> ELSE Digits(n, 16)

\* int(s) and int(s, 16)
RECURSIVE FromDigits(_, _)
FromDigits(ds, base) ==
    IF ds = <<>> THEN 0
    ELSE FromDigits(SubSeq(ds, 1, Len(ds) - 1), base) * base + ds[Len(ds)]

\* the character that prints a hex digit, and back ('0'..'9', 'A'..'F', 'a'..'f')
DigitChar(d) == IF d < 10 THEN 48 + d ELSE 55 + d

IsHexChar(c) == (c >= 48 /\ c <= 57) \/ (c >= 65 /\ c <= 70) \/ (c >= 97 /\ c <= 102)

CharDigit(c) == IF c <= 57 THEN c - 48 ELSE IF c <= 70 THEN c - 55 ELSE c - 87

Backslash == 92
Quote == 39
DoubleQuote == 34
Newline == 10
CarriageReturn == 13
Tab == 9
LetterN == 110
LetterR == 114
LetterT == 116
LetterX == 120
CloseBrace == 125

\* generate_header_file: ch_display of a character (a one-character string)
EscapeCharLowByte(ch) ==
    LET c == ch[1]
    IN  IF c = Backslash THEN <<Backslash, Backslash>>
        ELSE IF c = Quote THEN <<Backslash, Quote>>
        ELSE IF c = DoubleQuote THEN <<Backslash, DoubleQuote>>
        ELSE IF c = Newline THEN <<Backslash, LetterN>>
        ELSE IF c = CarriageReturn THEN <<Backslash, LetterR>>
        ELSE IF c = Tab THEN <<Backslash, LetterT>>
        ELSE IF c < 32 \/ c > 126
             THEN <<Backslash, LetterX>>
                  \o [i \in 1..2 |-> DigitChar(Hex02(c % 256)[i])]
        ELSE ch

EscapeChar(ch) ==
    LET c == ch[1]
    IN  IF c = Backslash THEN <<Backslash, Backslash>>
        ELSE IF c = Quote THEN <<Backslash, Quote>>
        ELSE IF c = DoubleQuote THEN <<Backslash, DoubleQuote>>
        ELSE IF c = Newline THEN <<Backslash, LetterN>>
        ELSE IF c = CarriageReturn THEN <<Backslash, LetterR>>
        ELSE IF c = Tab THEN <<Backslash, LetterT>>
        ELSE IF c < 32 \/ c > 126
             THEN <<Backslash, LetterX>> \o [i \in 1..Len(Hex02(c)) |-> DigitChar(Hex02(c)[i])]
        ELSE ch

\* parse_font_header: the character a display string stands for
UnescapeChar(char_display) ==
    IF char_display # <<>> /\ char_display[1] = Backslash
    THEN IF char_display = <<Backslash, Backslash>> THEN <<Backslash>>
         ELSE IF char_display = <<Backslash, Quote>> THEN <<Quote>>
         ELSE IF char_display = <<Backslash, DoubleQuote>> THEN <<DoubleQuote>>
         ELSE IF char_display = <<Backslash, LetterN>> THEN <<Newline>>
         ELSE IF char_display = <<Backslash, LetterR>> THEN <<CarriageReturn>>
         ELSE IF char_display = <<Backslash, LetterT>> THEN <<Tab>>
         ELSE IF Len(char_display) >= 2 /\ char_display[2] = LetterX
              THEN <<FromDigits([i \in 1..(Len(char_display) - 2) |->
                                  CharDigit(char_display[i + 2])], 16)>>
         ELSE char_display
    ELSE char_display

-----------------------------------------------------------------------------
(* generate_header_file: the tokens written for a table. *)

Glyph(cp, ch, bytes) == [codepoint |-> cp, char |-> ch, bytes |-> bytes]

\* what precedes byte i (0-based) of an entry: line break every 16 bytes
ByteLead(i) ==
    IF i = 0 THEN "newline"
    ELSE IF i % 16 = 0 THEN "comma newline"
    ELSE "comma space"

EntryTokens(char_info) ==
    <<Tok("tag", "", <<Hex02(char_info.codepoint),
                       <<Quote>> \o EscapeChar(char_info.char) \o <<Quote>>>>),
      Tok("open", "", <<>>)>>
    \o [i \in 1..Len(char_info.bytes) |->
           Tok("byte", ByteLead(i - 1), <<Hex02(char_info.bytes[i])>>)]
    \o <<Tok("close", "", <<>>)>>

RECURSIVE TableTokens(_)
TableTokens(chars) ==
    IF chars = <<>> THEN <<>>
    ELSE EntryTokens(Head(chars)) \o TableTokens(Tail(chars))

GenerateHeaderFileStamped(chars, font_name, w, h, start_char, ttf_source) ==
    LET bytes_per_char == Len(chars[1].bytes)
        bytes_per_row == BytesPerRow(w)
        last == chars[Len(chars)]
    IN  << Tok("pragma", "", <<>>),
           Tok("include", "", <<>>),
           Tok("font", ttf_source, <<>>),
           Tok("size", "", <<Dec(w), Dec(h)>>),
           Tok("chars", "", <<Hex02(start_char), Hex02(last.codepoint),
                              <<start_char>>, last.char>>),
           Tok("each", "", <<Dec(bytes_per_char), Dec(h), Dec(bytes_per_row)>>),
           Tok("row", "", <<Dec(bytes_per_row), Dec(w)>>),
           Tok("indexing", font_name,
               <<Hex02(start_char), Hex02(start_char), Hex02(last.codepoint)>>),
           Tok("generated", ttf_source, <<>>),
           Tok("decl", font_name, <<Dec(Len(chars)), Dec(bytes_per_char)>>) >>
        \o TableTokens(chars)
        \o << Tok("end", "", <<>>) >>

GenerateHeaderFileRowBytes(chars, font_name, w, h, start_char, ttf_source) ==
    LET bytes_per_char == Len(chars[1].bytes)
        bytes_per_row == BytesPerRow(w)
        last == chars[Len(chars)]
    IN  << Tok("pragma", "", <<>>),
           Tok("include", "", <<>>),
           Tok("font", ttf_source, <<>>),
           Tok("size", "", <<Dec(w), Dec(h)>>),
           Tok("chars", "", <<Hex02(start_char), Hex02(last.codepoint),
                              <<start_char>>, last.char>>),
           Tok("each", "", <<Dec(bytes_per_char), Dec(h), Dec(bytes_per_row)>>),
           Tok("row", "", <<Dec(bytes_per_row), Dec(w)>>),
           Tok("indexing", font_name,
               <<Hex02(start_char), Hex02(start_char), Hex02(last.codepoint)>>),
           Tok("generated", "", <<>>),
           Tok("decl", font_name, <<Dec(Len(chars)), Dec(bytes_per_row)>>) >>
        \o TableTokens(chars)
        \o << Tok("end", "", <<>>) >>

GenerateHeaderFile(chars, font_name, w, h, start_char, ttf_source) ==
    LET bytes_per_char == Len(chars[1].bytes)
        bytes_per_row == BytesPerRow(w)
        last == chars[Len(chars)]
    IN  << Tok("pragma", "", <<>>),
           Tok("include", "", <<>>),
           Tok("font", ttf_source, <<>>),
           Tok("size", "", <<Dec(w), Dec(h)>>),
           Tok("chars", "", <<Hex02(start_char), Hex02(last.codepoint),
                              <<start_char>>, last.char>>),
           Tok("each", "", <<Dec(bytes_per_char), Dec(h), Dec(bytes_per_row)>>),
           Tok("row", "", <<Dec(bytes_per_row), Dec(w)>>),
           Tok("indexing", font_name,
               <<Hex02(start_char), Hex02(start_char), Hex02(last.codepoint)>>),
           Tok("generated", "", <<>>),
           Tok("decl", font_name, <<Dec(Len(chars)), Dec(bytes_per_char)>>) >>
        \o TableTokens(chars)
        \o << Tok("end", "", <<>>) >>

-----------------------------------------------------------------------------
(* parse_font_header: the regular expressions, applied to the tokens. *)

None == -1

Whitespace == {32, 9, 10, 11, 12, 13}

\* the first of the positions where a pattern matches, 0 if there is none
FirstIndex(hits) ==
    IF hits = {} THEN 0 ELSE CHOOSE j \in hits : \A k \in hits : j <= k

\* r"Size:\s*(\d+)x(\d+)\s*pixels"
IsSizeMatch(t) ==
    /\ t.k = "size"
    /\ Len(t.f) = 2
    /\ t.f[1] # <<>> /\ t.f[2] # <<>>
    /\ \A i \in 1..2 : \A j \in 1..Len(t.f[i]) : t.f[i][j] < 10

\* r"Characters:\s*0x([0-9A-Fa-f]+)\.\.0x([0-9A-Fa-f]+)"
IsRangeMatch(t) == t.k = "chars" /\ Len(t.f) >= 2 /\ t.f[1] # <<>> /\ t.f[2] # <<>>

\* r"static const uint8_t\s+(\w+)_data\["
IsArrayMatch(t) == t.k = "decl" /\ t.nm # ""

IsEnd(t) == t.k = "end"

\* r"'(.*?)'\s*\n": the shortest text up to a quote that ends its line
RECURSIVE ClosingQuote(_, _)
ClosingQuote(raw, j) ==
    IF j > Len(raw) THEN 0
    ELSE IF raw[j] = Quote /\ \A k \in (j + 1)..Len(raw) : raw[k] \in Whitespace THEN j
    ELSE ClosingQuote(raw, j + 1)

IsTagMatch(t) ==
    /\ t.k = "tag"
    /\ Len(t.f) = 2
    /\ t.f[1] # <<>>
    /\ t.f[2] # <<>> /\ t.f[2][1] = Quote
    /\ ClosingQuote(t.f[2], 2) # 0

CharDisplay(t) == SubSeq(t.f[2], 2, ClosingQuote(t.f[2], 2) - 1)

\* the first "}" after the opening brace ends the entry
HasCloseBrace(t) ==
    \/ t.k = "close"
    \/ t.k = "tag" /\ Len(t.f) = 2 /\ \E i \in 1..Len(t.f[2]) : t.f[2][i] = CloseBrace

\* re.findall(r"0x([0-9A-Fa-f]+)", byte_data_str) over tokens from..to
RECURSIVE HexValues(_, _, _)
HexValues(body, from, to) ==
    IF from > to THEN <<>>
    ELSE LET t == body[from]
         IN  (IF t.k \in {"byte", "tag"} /\ Len(t.f) >= 1 /\ t.f[1] # <<>>
              THEN <<FromDigits(t.f[1], 16)>> ELSE <<>>)
             \o HexValues(body, from + 1, to)

\* re.finditer(char_pattern, array_content, re.DOTALL)
RECURSIVE ParseEntries(_, _)
ParseEntries(body, i) ==
    IF i > Len(body) THEN <<>>
    ELSE IF IsTagMatch(body[i]) /\ i + 1 <= Len(body) /\ body[i + 1].k = "open"
    THEN LET j == FirstIndex({k \in (i + 2)..Len(body) : HasCloseBrace(body[k])})
         IN  IF j = 0 THEN ParseEntries(body, i + 1)
             ELSE << Glyph(FromDigits(body[i].f[1], 16),
                           UnescapeChar(CharDisplay(body[i])),
                           HexValues(body, i + 2, IF body[j].k = "tag" THEN j ELSE j - 1)) >>
                  \o ParseEntries(body, j + 1)
    ELSE ParseEntries(body, i + 1)

\* Python truthiness as used by all([...])
Truthy(v) == v # None /\ v # 0

FontData(err, name, w, h, char_start, char_end, chars) ==
    [err |-> err, name |-> name, width |-> w, height |-> h,
     char_start |-> char_start, char_end |-> char_end, characters |-> chars]

ParseFontHeader(content) ==
    LET size_match == FirstIndex({j \in 1..Len(content) : IsSizeMatch(content[j])})
        range_match == FirstIndex({j \in 1..Len(content) : IsRangeMatch(content[j])})
        array_match == FirstIndex({j \in 1..Len(content) : IsArrayMatch(content[j])})
        w == IF size_match # 0 THEN FromDigits(content[size_match].f[1], 10) ELSE None
        h == IF size_match # 0 THEN FromDigits(content[size_match].f[2], 10) ELSE None
        char_start == IF range_match # 0
                      THEN FromDigits(content[range_match].f[1], 16) ELSE None
        char_end == IF range_match # 0
                    THEN FromDigits(content[range_match].f[2], 16) ELSE None
        font_name == IF array_match # 0 THEN content[array_match].nm ELSE ""
        body_end == FirstIndex({j \in (array_match + 1)..Len(content) : IsEnd(content[j])})
    IN  IF ~(Truthy(w) /\ Truthy(h) /\ Truthy(char_start) /\ Truthy(char_end)
             /\ font_name # "")
        THEN FontData("metadata", "", None, None, None, None, <<>>)
        ELSE IF body_end = 0
        THEN FontData("array", "", None, None, None, None, <<>>)
        ELSE FontData("", font_name, w, h, char_start, char_end,
                      ParseEntries(SubSeq(content, array_match + 1, body_end - 1), 1))

-----------------------------------------------------------------------------
(* SpecPack: one glyph through render, pack and visualize. *)

Cells(w, h) == (0..(w - 1)) \X (0..(h - 1))

NoArgs == [width |-> 0, height |-> 0, start |-> 0, end |-> 0, name |-> "", ttf_file |-> ""]

NoFontData == FontData("none", "", None, None, None, None, <<>>)

\* a hand-written file: the size and range its header declares, the entries
\* of its table, and what is wrong with its structure ("none": nothing)
Hand(w, h, st, en, table, damage) ==
    [width |-> w, height |-> h, start |-> st, end |-> en, table |-> table,
     damage |-> damage]

NoHand == Hand(0, 0, 0, 0, <<>>, "none")

\* a second call of generate_header_file that has not been made
NoAgain == [ttf_source |-> "", output |-> <<>>]

\* the game is not running
NoGame ==
    /\ segments = <<>>
    /\ direction = <<0, 0>>
    /\ next_direction = <<0, 0>>
    /\ grow_pending = 0
    /\ food = <<0, 0>>
    /\ score = 0
    /\ local_best = 0
    /\ speed = 0
    /\ best_score = 0
    /\ eaten = 0

Ink(pixels) == Cardinality({c \in DOMAIN pixels : pixels[c] # 0})

PackInit ==
    /\ pc = "draw"
    /\ width \in 1..MaxWidth
    /\ height \in 1..MaxHeight
    /\ img = [c \in Cells(width, height) |-> 0]
    /\ rows = <<>>
    /\ byte_data = <<>>
    /\ lines = <<>>
    /\ preview_lines = <<>>
    /\ inline_rows = <<>>
    /\ display = <<>>
    /\ args = NoArgs
    /\ characters = <<>>
    /\ file = <<>>
    /\ hand = NoHand
    /\ font_data = NoFontData
    /\ errors = <<>>
    /\ out = <<>>
    /\ rc = None
    /\ again = NoAgain
    /\ NoGame

\* draw.text: the rasterizer leaves coverage in some pixels
DrawText ==
    /\ pc = "draw"
    /\ Ink(img) < MaxInk
    /\ \E c \in DOMAIN img, v \in Samples \ {0} :
          /\ img[c] = 0
          /\ img' = [img EXCEPT ![c] = v]
    /\ UNCHANGED <<display, pc, width, height, rows, byte_data, lines, preview_lines, inline_rows, encVars, file, hand, decVars, again, snakeVars, scoreVars>>

PackRender ==
    /\ pc = "draw"
    /\ rows' = RenderCharacter(img, width, height)
    /\ pc' = "pack"
    /\ UNCHANGED <<display, width, height, img, byte_data, lines, preview_lines, inline_rows, encVars, file, hand, decVars, again, snakeVars, scoreVars>>

PackBytes ==
    /\ pc = "pack"
    /\ byte_data' = RowsToBytes(rows, width)
    /\ pc' = "show"
    /\ UNCHANGED <<display, width, height, img, rows, lines, preview_lines, inline_rows, encVars, file, hand, decVars, again, snakeVars, scoreVars>>

\* a glyph whose byte list has lost its last byte or gained one, as a
\* table with a size mismatch hands it to the visualizers
PackEdit ==
    /\ pc = "show"
    /\ Ink(img) <= MaxEditInk
    /\ \/ byte_data' = SubSeq(byte_data, 1, Len(byte_data) - 1)
       \/ byte_data' = Append(byte_data, 255)
    /\ pc' = "show edited"
    /\ UNCHANGED <<display, width, height, img, rows, lines, preview_lines, inline_rows, encVars, file, hand, decVars, again, snakeVars, scoreVars>>

\* the glyph through the decoder's visualize_character, the encoder's
\* visualize_character and, side by side with a glyph that has no bytes at
\* all, the renderer of --all
PackVisualize ==
    /\ pc \in {"show", "show edited"}
    /\ lines' = VisualizeCharacter(byte_data, width, height)
    /\ preview_lines' = EncoderVisualize(byte_data, width, height)
    /\ inline_rows' = InlineRows(<<Glyph(0, <<0>>, byte_data), Glyph(1, <<1>>, <<>>)>>,
                                 width, height)
    /\ pc' = IF pc = "show" THEN "shown" ELSE "shown edited"
    /\ UNCHANGED <<display, width, height, img, rows, byte_data, encVars, file, hand, decVars, again, snakeVars, scoreVars>>

\* a one-row image whose first pixel has any value of the range, next to
\* a pixel that is black, at the threshold, just above it or white
ThresholdInit ==
    /\ pc = "draw"
    /\ width \in 1..MaxNeighbours
    /\ height = 1
    /\ \E v \in 0..MaxSample, n \in Samples \cup {MaxSample} :
          img = [c \in Cells(width, height) |-> IF c[1] = 0 THEN v ELSE n]
    /\ rows = <<>>
    /\ byte_data = <<>>
    /\ lines = <<>>
    /\ preview_lines = <<>>
    /\ inline_rows = <<>>
    /\ display = <<>>
    /\ args = NoArgs
    /\ characters = <<>>
    /\ file = <<>>
    /\ hand = NoHand
    /\ font_data = NoFontData
    /\ errors = <<>>
    /\ out = <<>>
    /\ rc = None
    /\ again = NoAgain
    /\ NoGame

SpecThreshold == ThresholdInit /\ [][PackRender \/ PackBytes]_vars

PackNext == DrawText \/ PackRender \/ PackBytes \/ PackEdit \/ PackVisualize

SpecPack == PackInit /\ [][PackNext]_vars

-----------------------------------------------------------------------------
(* The encoder: main of ttf_to_rm690b0.py. *)

MinCell == 1
MaxCell == 64
MaxCodepoint == 1114111

\* cell sizes, first code points, names and font files tried
Sizes == {<<1, 1>>, <<8, 2>>, <<12, 9>>, <<16, 1>>, <<20, 3>>}

Starts == {0, 9, 32, 38, 58, 91, 123, 125, 255, 1114110}

Names == {"", "my_font"}

Sources == {"a.ttf", "b.ttf"}

Args(w, h, st, en, nm, t) ==
    [width |-> w, height |-> h, start |-> st, end |-> en, name |-> nm, ttf_file |-> t]

ValidArgs ==
    {Args(sz[1], sz[2], st, st + n, nm, t) :
        sz \in Sizes, st \in Starts, n \in 0..(MaxCount - 1), nm \in Names, t \in Sources}

\* an invocation whose table is too wide to be displayed side by side
WideArgs == {Args(24, 1, 32, 34, "my_font", "a.ttf")}

InvalidArgs ==
    {Args(0, 8, 32, 33, "", "a.ttf"), Args(65, 8, 32, 33, "", "a.ttf"),
     Args(8, 0, 32, 33, "", "a.ttf"), Args(8, 65, 32, 33, "", "a.ttf"),
     Args(8, 8, 0 - 1, 33, "", "a.ttf"), Args(8, 8, MaxCodepoint + 1, MaxCodepoint + 2, "", "a.ttf"),
     Args(8, 8, 33, 32, "", "a.ttf"),
     Args(8, 8, MaxCodepoint, MaxCodepoint + 1, "", "a.ttf")}

ArgsAcceptedNoEndLimit(a) ==
    /\ ~(a.width < MinCell \/ a.width > MaxCell)
    /\ ~(a.height < MinCell \/ a.height > MaxCell)
    /\ ~(a.start < 0 \/ a.start > MaxCodepoint)
    /\ ~(a.end < a.start)

\* main: "Validate inputs"
ArgsAccepted(a) ==
    /\ ~(a.width < MinCell \/ a.width > MaxCell)
    /\ ~(a.height < MinCell \/ a.height > MaxCell)
    /\ ~(a.start < 0 \/ a.start > MaxCodepoint)
    /\ ~(a.end < a.start \/ a.end > MaxCodepoint)

\* main: "Generate font name if not specified"
DefaultName(w, h) == "rm690b0_font_" \o ToString(w) \o "x" \o ToString(h)

\* images the rasterizer may hand back for one character in a run of main
GlyphImages(w, h) ==
    LET blank == [c \in Cells(w, h) |-> 0]
    IN  {blank,
         [blank EXCEPT ![<<0, 0>>] = 129],
         [blank EXCEPT ![<<w - 1, h - 1>>] = 129]}

\* convert_ttf_to_rm690b0: range(start_char, end_char + 1) is exhausted
LoopDoneOnFirst(chars, start_char, end_char) == Len(chars) >= 1

LoopDoneShort(chars, start_char, end_char) == Len(chars) >= end_char - start_char

LoopDone(chars, start_char, end_char) == Len(chars) >= end_char + 1 - start_char

\* convert_ttf_to_rm690b0: one pass of the loop body
ConvertOne(chars, start_char, image, w, h) ==
    LET codepoint == start_char + Len(chars)
    IN  Append(chars, Glyph(codepoint, <<codepoint>>,
                            RowsToBytes(RenderCharacter(image, w, h), w)))

Init ==
    /\ pc = "main"
    /\ args \in ValidArgs \cup WideArgs \cup InvalidArgs
    /\ width = 0
    /\ height = 0
    /\ img = <<>>
    /\ rows = <<>>
    /\ byte_data = <<>>
    /\ lines = <<>>
    /\ preview_lines = <<>>
    /\ inline_rows = <<>>
    /\ display = <<>>
    /\ characters = <<>>
    /\ file = <<>>
    /\ hand = NoHand
    /\ font_data = NoFontData
    /\ errors = <<>>
    /\ out = <<>>
    /\ rc = None
    /\ again = NoAgain
    /\ NoGame

\* main: validate the inputs, choose the name
MainValidate ==
    /\ pc = "main"
    /\ IF ArgsAccepted(args)
       THEN /\ args' = [args EXCEPT !.name = IF @ = "" THEN DefaultName(args.width, args.height) ELSE @]
            /\ pc' = "find font"
            /\ rc' = rc
       ELSE /\ pc' = "exit"
            /\ rc' = 1
            /\ args' = args
    /\ UNCHANGED <<display, packVars, characters, file, hand, font_data, errors, out, again, snakeVars, scoreVars>>

\* main: the font file exists, or exit
MainFindFont ==
    /\ pc = "find font"
    /\ \E exists \in BOOLEAN :
          IF exists THEN pc' = "load font" /\ rc' = rc
          ELSE pc' = "exit" /\ rc' = 1
    /\ UNCHANGED <<display, packVars, encVars, file, hand, font_data, errors, out, again, snakeVars, scoreVars>>

\* convert_ttf_to_rm690b0: ImageFont.truetype loads the font, or exit
ConvertLoadFont ==
    /\ pc = "load font"
    /\ \E loaded \in BOOLEAN :
          IF loaded THEN pc' = "convert" /\ rc' = rc
          ELSE pc' = "exit" /\ rc' = 1
    /\ characters' = <<>>
    /\ UNCHANGED <<display, packVars, args, file, hand, font_data, errors, out, again, snakeVars, scoreVars>>

\* convert_ttf_to_rm690b0: render and pack the next character; an exception
\* of the rasterizer is not caught and ends the run
ConvertCharacter ==
    /\ pc = "convert"
    /\ ~LoopDone(characters, args.start, args.end)
    /\ \/ /\ \E image \in GlyphImages(args.width, args.height) :
                characters' = ConvertOne(characters, args.start, image,
                                         args.width, args.height)
          /\ UNCHANGED <<pc, rc>>
       \/ /\ pc' = "encoder raised"
          /\ rc' = 1
          /\ UNCHANGED characters
    /\ UNCHANGED <<display, packVars, args, file, hand, font_data, errors, out, again, snakeVars, scoreVars>>

\* convert_ttf_to_rm690b0: return characters
ConvertReturn ==
    /\ pc = "convert"
    /\ LoopDone(characters, args.start, args.end)
    /\ pc' = "preview"
    /\ UNCHANGED <<display, packVars, encVars, file, hand, decVars, again, snakeVars, scoreVars>>

\* what --preview or --char holds: nothing, one character or "0x" and hex
\* digits (a code), a longer text that is no code, or "0x" and something
\* int(..., 16) rejects
Request(kind, code) == [kind |-> kind, code |-> code]

\* the codes asked for: around both ends of the range
LookupCodes(st, en) == {c \in {st - 1, st, st + 1, en, en + 1} : c >= 0}

PreviewRequests(a) ==
    {Request("none", 0), Request("invalid", 0), Request("bad hex", 0)}
    \cup {Request("code", c) : c \in LookupCodes(a.start, a.end)}

LookupAtLeast(chars, code) ==
    FirstIndex({k \in 1..Len(chars) : chars[k].codepoint >= code})

\* "for char in characters: if char['codepoint'] == code: ... break":
\* the position of the glyph found, 0 for none
Lookup(chars, code) ==
    FirstIndex({k \in 1..Len(chars) : chars[k].codepoint = code})

NoGlyph == Glyph(None, <<>>, <<>>)

\* one lookup and what was shown for it
Shown(who, code, glyph, grid) ==
    [who |-> who, code |-> code, found |-> glyph # NoGlyph, glyph |-> glyph,
     shown |-> grid]

\* main: "Preview character if requested"
MainPreview ==
    /\ pc = "preview"
    /\ \E request \in PreviewRequests(args) :
          CASE request.kind = "none" ->
                  pc' = "generate" /\ UNCHANGED <<display, rc>>
            [] request.kind = "invalid" ->
                  pc' = "exit" /\ rc' = 1 /\ UNCHANGED display
            [] request.kind = "bad hex" ->
                  pc' = "preview raised" /\ rc' = 1 /\ UNCHANGED display
            [] request.kind = "code" ->
                  LET preview_code == request.code
                      i == Lookup(characters, preview_code)
                  IN  /\ display' = Append(display,
                            IF i # 0
                            THEN Shown("preview", preview_code, characters[i],
                                       EncoderVisualize(characters[i].bytes,
                                                        args.width, args.height))
                            ELSE Shown("preview", preview_code, NoGlyph, <<>>))
                      /\ pc' = "generate"
                      /\ rc' = rc
    /\ UNCHANGED <<packVars, encVars, file, hand, font_data, errors, out, again, snakeVars, scoreVars>>

\* main: generate_header_file writes the output
MainGenerate ==
    /\ pc = "generate"
    /\ file' = GenerateHeaderFile(characters, args.name, args.width, args.height,
                                  args.start, args.ttf_file)
    /\ pc' = "file"
    /\ rc' = 0
    /\ UNCHANGED <<display, hand, packVars, encVars, font_data, errors, out, again, snakeVars, scoreVars>>

\* generate_header_file called once more with the same table, name, size
\* and range, for a source font file of any name
GenerateAgain ==
    /\ pc = "file"
    /\ \E ttf_source \in Sources :
          again' = [ttf_source |-> ttf_source,
                    output |-> GenerateHeaderFile(characters, args.name, args.width,
                                                  args.height, args.start, ttf_source)]
    /\ pc' = "file again"
    /\ UNCHANGED <<packVars, encVars, file, hand, display, decVars, snakeVars, scoreVars>>

EncoderNext ==
    \/ GenerateAgain
    \/ MainValidate
    \/ MainFindFont
    \/ ConvertLoadFont
    \/ ConvertCharacter
    \/ ConvertReturn
    \/ MainPreview
    \/ MainGenerate

-----------------------------------------------------------------------------
(* The decoder: test_font_file of test_converted_font.py. *)

\* one violation: kind, where (code point or index), what was found, what was expected
Violation(kind, at, got, expected) ==
    [kind |-> kind, at |-> at, got |-> got, expected |-> expected]

\* "Check character count"
CountErrors(fd) ==
    LET expected_count == fd.char_end - fd.char_start + 1
    IN  IF Len(fd.characters) # expected_count
        THEN <<Violation("count", 0, Len(fd.characters), expected_count)>>
        ELSE <<>>

\* "Check byte counts"
SizeErrors(fd) ==
    LET expected_bytes == fd.height * BytesPerRow(fd.width)
        i == FirstIndex({k \in 1..Len(fd.characters) :
                            Len(fd.characters[k].bytes) # expected_bytes})
    IN  IF i # 0
        THEN <<Violation("size", fd.characters[i].codepoint,
                         Len(fd.characters[i].bytes), expected_bytes)>>
        ELSE <<>>

\* "Check codepoint sequence"
SequenceErrors(fd) ==
    LET i == FirstIndex({k \in 1..Len(fd.characters) :
                            fd.characters[k].codepoint # fd.char_start + (k - 1)})
    IN  IF i # 0
        THEN <<Violation("sequence", i - 1, fd.characters[i].codepoint,
                         fd.char_start + (i - 1))>>
        ELSE <<>>

FirstErrorOnly(fd) ==
    LET all == CountErrors(fd) \o SizeErrors(fd) \o SequenceErrors(fd)
    IN  IF all = <<>> THEN <<>> ELSE <<Head(all)>>

ValidationErrorsNoSize(fd) == CountErrors(fd) \o SequenceErrors(fd)

ValidationErrorsNoSequence(fd) == CountErrors(fd) \o SizeErrors(fd)

\* the errors list after the three checks
ValidationErrors(fd) == CountErrors(fd) \o SizeErrors(fd) \o SequenceErrors(fd)

\* the check marks printed by the checks that passed
CheckMarks(fd) ==
    (IF CountErrors(fd) = <<>> THEN <<Violation("count ok", 0, 0, 0)>> ELSE <<>>)
    \o (IF SizeErrors(fd) = <<>> THEN <<Violation("size ok", 0, 0, 0)>> ELSE <<>>)
    \o (IF SequenceErrors(fd) = <<>> THEN <<Violation("sequence ok", 0, 0, 0)>> ELSE <<>>)

\* test_font_file: parse the file; a parse error is reported and returns 1
TestParse ==
    /\ pc = "file"
    /\ font_data' = ParseFontHeader(file)
    /\ IF font_data'.err # ""
       THEN /\ out' = <<Violation("parse error", 0, 0, 0)>>
            /\ rc' = 1
            /\ pc' = "returned"
       ELSE /\ out' = <<>>
            /\ rc' = None
            /\ pc' = "info"
    /\ UNCHANGED <<display, packVars, encVars, file, hand, errors, again, snakeVars, scoreVars>>

\* test_font_file: print the font information; characters[0] of an empty
\* list raises IndexError, which nothing catches
TestInfo ==
    /\ pc = "info"
    /\ IF font_data.characters = <<>>
       THEN pc' = "decoder raised"
       ELSE pc' = "validate"
    /\ UNCHANGED <<display, packVars, encVars, file, hand, decVars, again, snakeVars, scoreVars>>

\* test_font_file: the three checks, then print the errors and return 1
TestValidate ==
    /\ pc = "validate"
    /\ errors' = ValidationErrors(font_data)
    /\ out' = out \o CheckMarks(font_data) \o errors'
    /\ IF errors' # <<>>
       THEN pc' = "returned" /\ rc' = 1
       ELSE pc' = "display" /\ rc' = rc
    /\ UNCHANGED <<display, packVars, encVars, file, hand, font_data, again, snakeVars, scoreVars>>

\* what the caller asks test_font_file to display
DisplayRequests(fd) ==
    {Request("samples", 0), Request("all", 0), Request("invalid", 0),
     Request("bad hex", 0)}
    \cup {Request("code", c) : c \in LookupCodes(fd.char_start, fd.char_end)}

\* sample_chars = ["A", "g", "0", "5", "!", "@"]
SampleChars == <<65, 103, 48, 53, 33, 64>>

\* "Show sample characters": each sample that the table holds
RECURSIVE ShowSamples(_, _)
ShowSamples(fd, k) ==
    IF k > Len(SampleChars) THEN <<>>
    ELSE LET sample_cp == SampleChars[k]
             i == Lookup(fd.characters, sample_cp)
         IN  (IF i # 0
              THEN <<Shown("sample", sample_cp, fd.characters[i],
                           VisualizeCharacter(fd.characters[i].bytes,
                                              fd.width, fd.height))>>
              ELSE <<>>)
             \o ShowSamples(fd, k + 1)

GroupSize == 16
LineLimit == 70

\* the glyphs of a group one below the other
ShowEach(group, w, h) ==
    [k \in 1..Len(group) |->
        Shown("all", group[k].codepoint, group[k],
              VisualizeCharacter(group[k].bytes, w, h))]

\* "Show in groups of 16": side by side if the line stays short
RECURSIVE ShowAll(_, _)
ShowAll(fd, i) ==
    IF i >= Len(fd.characters) THEN <<>>
    ELSE LET group == Slice(fd.characters, i, i + GroupSize)
         IN  (IF fd.width * Len(group) < LineLimit
              THEN <<Shown("all inline", group[1].codepoint, group[1],
                           InlineRows(group, fd.width, fd.height))>>
              ELSE ShowEach(group, fd.width, fd.height))
             \o ShowAll(fd, i + GroupSize)

\* test_font_file: "Display character(s)", then the success banner and
\* return 0; a character that is not found is an error and returns 1
TestDisplay ==
    /\ pc = "display"
    /\ \E request \in DisplayRequests(font_data) :
          CASE request.kind = "bad hex" ->
                  pc' = "display raised" /\ UNCHANGED <<display, out, rc>>
            [] request.kind = "invalid" ->
                  /\ out' = Append(out, Violation("not found", 0, 0, 0))
                  /\ pc' = "returned"
                  /\ rc' = 1
                  /\ UNCHANGED display
            [] request.kind = "code" ->
                  LET search_cp == request.code
                      i == Lookup(font_data.characters, search_cp)
                  IN  IF i # 0
                      THEN /\ display' = Append(display,
                                 Shown("char", search_cp, font_data.characters[i],
                                       VisualizeCharacter(font_data.characters[i].bytes,
                                                          font_data.width,
                                                          font_data.height)))
                           /\ out' = Append(out, Violation("success", 0, 0, 0))
                           /\ pc' = "returned"
                           /\ rc' = 0
                      ELSE /\ display' = Append(display,
                                 Shown("char", search_cp, NoGlyph, <<>>))
                           /\ out' = Append(out, Violation("not found", search_cp, 0, 0))
                           /\ pc' = "returned"
                           /\ rc' = 1
            [] request.kind = "all" ->
                  /\ display' = display \o ShowAll(font_data, 0)
                  /\ out' = Append(out, Violation("success", 0, 0, 0))
                  /\ pc' = "returned"
                  /\ rc' = 0
            [] request.kind = "samples" ->
                  /\ display' = display \o ShowSamples(font_data, 1)
                  /\ out' = Append(out, Violation("success", 0, 0, 0))
                  /\ pc' = "returned"
                  /\ rc' = 0
    /\ UNCHANGED <<packVars, encVars, file, hand, font_data, errors, again, snakeVars, scoreVars>>

DecoderNext == TestParse \/ TestInfo \/ TestValidate \/ TestDisplay

\* the encoder, then the decoder on the file it wrote
Next == EncoderNext \/ DecoderNext

Spec == Init /\ [][Next]_vars

-----------------------------------------------------------------------------
(* The entries of a table, written by generate_header_file's loop and read
   back by parse_font_header's loop. *)

\* every code point up to just past the printable ASCII range, and the
\* ends of the one-byte range, of the surrogates, of the planes
Codepoints == (0..MaxPlain) \cup {255, 256, 55295, 55296, 57343, 65535, 65536, 1114110, 1114111}

EscapeInit ==
    /\ pc = "table"
    /\ \E cp \in Codepoints, n \in 1..MaxCount :
          /\ cp + n - 1 <= MaxCodepoint
          /\ characters = [i \in 1..n |-> Glyph(cp + i - 1, <<cp + i - 1>>, <<0, 165>>)]
    /\ args = NoArgs
    /\ width = 0
    /\ height = 0
    /\ img = <<>>
    /\ rows = <<>>
    /\ byte_data = <<>>
    /\ lines = <<>>
    /\ preview_lines = <<>>
    /\ inline_rows = <<>>
    /\ display = <<>>
    /\ file = <<>>
    /\ hand = NoHand
    /\ font_data = NoFontData
    /\ errors = <<>>
    /\ out = <<>>
    /\ rc = None
    /\ again = NoAgain
    /\ NoGame

\* generate_header_file: "for char_info in characters"
WriteEntries ==
    /\ pc = "table"
    /\ file' = TableTokens(characters)
    /\ pc' = "entries"
    /\ UNCHANGED <<packVars, encVars, hand, display, decVars, again, snakeVars, scoreVars>>

\* parse_font_header: "for match in re.finditer(char_pattern, array_content)"
ReadEntries ==
    /\ pc = "entries"
    /\ font_data' = [NoFontData EXCEPT !.err = "", !.characters = ParseEntries(file, 1)]
    /\ pc' = "read"
    /\ UNCHANGED <<packVars, encVars, file, hand, display, errors, out, rc, again, snakeVars, scoreVars>>

SpecEscape == EscapeInit /\ [][WriteEntries \/ ReadEntries]_vars

-----------------------------------------------------------------------------
(* examples/snake_game.py: Snake, Food, play_round and main.  The grid has
   Cols x Rows cells in place of GRID_COLS x GRID_ROWS = 40 x 30.  Speeds are
   counted in halves of a move per second, SPEED_INCREMENT being 0.5. *)

SCORE_PER_FOOD == 10
INITIAL_SPEED == 16
SPEED_INCREMENT == 1
MAX_SPEED == 40

DIR_UP == <<0, -1>>
DIR_DOWN == <<0, 1>>
DIR_LEFT == <<-1, 0>>
DIR_RIGHT == <<1, 0>>

\* what JoystickInput.get_direction returns when a direction is pressed
Directions == {DIR_UP, DIR_DOWN, DIR_LEFT, DIR_RIGHT}

Min(a, b) == IF a <= b THEN a ELSE b

Cell(x, y) == <<x, y>>

Occupied(snake_segments) == {snake_segments[i] : i \in 1..Len(snake_segments)}

\* Snake.__init__
NewSnake(start_x, start_y) ==
    <<Cell(start_x, start_y), Cell(start_x - 1, start_y), Cell(start_x - 2, start_y)>>

\* Snake.set_direction: the new value of next_direction
SetDirectionAgainstNext(new_direction, dir, next) ==
    IF Cell(new_direction[1] + next[1], new_direction[2] + next[2]) = Cell(0, 0)
    THEN next
    ELSE new_direction

SetDirection(new_direction, dir, next) ==
    IF Cell(new_direction[1] + dir[1], new_direction[2] + dir[2]) = Cell(0, 0)
    THEN next
    ELSE new_direction

\* Snake.move: the segments and grow_pending after a move in direction dir
Move(segs, dir, pending) ==
    LET new_head == Cell(segs[1][1] + dir[1], segs[1][2] + dir[2])
        longer == <<new_head>> \o segs
    IN  IF pending > 0
        THEN [segments |-> longer, grow_pending |-> pending - 1]
        ELSE [segments |-> SubSeq(longer, 1, Len(longer) - 1), grow_pending |-> pending]

\* Snake.collides_with_self
CollidesWithSelf(segs) == \E i \in 2..Len(segs) : segs[i] = segs[1]

\* Snake.collides_with_walls
CollidesWithWalls(segs, grid_cols, grid_rows) ==
    LET head_x == segs[1][1]
        head_y == segs[1][2]
    IN  head_x < 0 \/ head_x >= grid_cols \/ head_y < 0 \/ head_y >= grid_rows

\* Food._spawn: the cells random.randint can draw and the loop returns
SpawnAnywhere(grid_cols, grid_rows, snake_segments) == (0..(grid_cols - 1)) \X (0..(grid_rows - 1))

Spawn(grid_cols, grid_rows, snake_segments) ==
    {p \in (0..(grid_cols - 1)) \X (0..(grid_rows - 1)) : p \notin Occupied(snake_segments)}

\* play_round: score, local_best and speed after a frame in which the head
\* reached the food (ate) or did not
ScoreAfterUncapped(ate, sc, best, sp) ==
    IF ate
    THEN [score |-> sc + SCORE_PER_FOOD,
          local_best |-> IF sc + SCORE_PER_FOOD > best THEN sc + SCORE_PER_FOOD ELSE best,
          speed |-> sp + SPEED_INCREMENT]
    ELSE [score |-> sc, local_best |-> best, speed |-> sp]

ScoreAfter(ate, sc, best, sp) ==
    IF ate
    THEN [score |-> sc + SCORE_PER_FOOD,
          local_best |-> IF sc + SCORE_PER_FOOD > best THEN sc + SCORE_PER_FOOD ELSE best,
          speed |-> Min(sp + SPEED_INCREMENT, MAX_SPEED)]
    ELSE [score |-> sc, local_best |-> best, speed |-> sp]

NoFont ==
    /\ args = NoArgs
    /\ width = 0
    /\ height = 0
    /\ img = <<>>
    /\ rows = <<>>
    /\ byte_data = <<>>
    /\ lines = <<>>
    /\ preview_lines = <<>>
    /\ inline_rows = <<>>
    /\ display = <<>>
    /\ characters = <<>>
    /\ file = <<>>
    /\ hand = NoHand
    /\ font_data = NoFontData
    /\ errors = <<>>
    /\ out = <<>>
    /\ rc = None
    /\ again = NoAgain

\* main: best_score = 0, the start screen is shown
SnakeInit ==
    /\ pc = "start screen"
    /\ NoFont
    /\ NoGame

\* play_round: "Initialize game state"
RoundStart ==
    /\ pc = "start screen"
    /\ LET start_x == Cols \div 2
           start_y == Rows \div 2
       IN  /\ segments' = NewSnake(start_x, start_y)
           /\ \E position \in Spawn(Cols, Rows, NewSnake(start_x, start_y)) :
                 food' = position
    /\ direction' = DIR_RIGHT
    /\ next_direction' = DIR_RIGHT
    /\ grow_pending' = 0
    /\ score' = 0
    /\ local_best' = best_score
    /\ speed' = INITIAL_SPEED
    /\ eaten' = 0
    /\ pc' = "input"
    /\ UNCHANGED <<best_score, fontVars>>

\* Snake.set_direction, called with a direction of the joystick
SnakeSetDirection ==
    /\ pc = "input"
    /\ \E new_direction \in Directions :
          next_direction' = SetDirection(new_direction, direction, next_direction)
    /\ UNCHANGED <<pc, segments, direction, grow_pending, food, scoreVars, fontVars>>

\* play_round: the rest of a frame: move, collisions, food.  eaten counts
\* the foods eaten in the round; a full grid leaves Food._spawn looping.
Frame ==
    /\ pc = "input"
    /\ LET moved == Move(segments, next_direction, grow_pending)
           game_over == \/ CollidesWithWalls(moved.segments, Cols, Rows)
                        \/ CollidesWithSelf(moved.segments)
           ate == moved.segments[1] = food
           after == ScoreAfter(ate, score, local_best, speed)
       IN  /\ ate => eaten < MaxEaten
           /\ direction' = next_direction
           /\ segments' = moved.segments
           /\ grow_pending' = moved.grow_pending + (IF ate THEN 1 ELSE 0)
           /\ score' = after.score
           /\ local_best' = after.local_best
           /\ speed' = after.speed
           /\ eaten' = eaten + (IF ate THEN 1 ELSE 0)
           /\ IF ate /\ Spawn(Cols, Rows, moved.segments) = {}
              THEN food' = food /\ pc' = "spawning"
              ELSE /\ IF ate
                      THEN \E position \in Spawn(Cols, Rows, moved.segments) :
                              food' = position
                      ELSE food' = food
                   /\ pc' = IF game_over THEN "game over" ELSE "input"
    /\ UNCHANGED <<next_direction, best_score, fontVars>>

\* main: score, best_score = play_round(...), then the next start screen
RoundEnd ==
    /\ pc = "game over"
    /\ best_score' = local_best
    /\ pc' = "start screen"
    /\ UNCHANGED <<snakeVars, score, local_best, speed, eaten, fontVars>>

\* main: KeyboardInterrupt, "Best score this session"
Interrupt ==
    /\ pc \in {"start screen", "input", "game over", "playing"}
    /\ pc' = "stopped"
    /\ UNCHANGED <<snakeVars, scoreVars, fontVars>>

SnakeNext == RoundStart \/ SnakeSetDirection \/ Frame \/ RoundEnd \/ Interrupt

SpecSnake == SnakeInit /\ [][SnakeNext]_vars

\* play_round and main with the geometry left out, for rounds long enough
\* to reach MAX_SPEED: in a frame the head reaches the food, or the snake
\* dies, or neither
LongRoundStart ==
    /\ pc = "start screen"
    /\ score' = 0
    /\ local_best' = best_score
    /\ speed' = INITIAL_SPEED
    /\ eaten' = 0
    /\ pc' = "playing"
    /\ UNCHANGED <<best_score, snakeVars, fontVars>>

LongFrame ==
    /\ pc = "playing"
    /\ \E ate \in BOOLEAN, game_over \in BOOLEAN :
          LET after == ScoreAfter(ate, score, local_best, speed)
          IN  /\ ~(ate /\ game_over)
              /\ ate => eaten < MaxFoods
              /\ score' = after.score
              /\ local_best' = after.local_best
              /\ speed' = after.speed
              /\ eaten' = eaten + (IF ate THEN 1 ELSE 0)
              /\ pc' = IF game_over THEN "game over" ELSE "playing"
    /\ UNCHANGED <<best_score, snakeVars, fontVars>>

ScoreNext == LongRoundStart \/ LongFrame \/ RoundEnd \/ Interrupt

SpecScore == SnakeInit /\ [][ScoreNext]_vars

-----------------------------------------------------------------------------
(* The decoder on a hand-written file in the encoder's layout. *)

DecodeSizes == {<<8, 1>>, <<12, 2>>}

DecodeStarts == {0, 32}

\* an entry of a hand-written table: a tag and a byte list of some length
HandEntry(cp, n) == Glyph(cp, <<cp>>, [i \in 1..n |-> 165])

HandEntries(w, h, st) ==
    {HandEntry(cp, n) :
        cp \in st..(st + MaxEntries),
        n \in (h * BytesPerRow(w) - 1)..(h * BytesPerRow(w) + 1)}

HandTables(w, h, st) ==
    UNION {[1..n -> HandEntries(w, h, st)] : n \in 0..MaxEntries}

\* the file a person writes for a declared size and range and some entries
HandFile(w, h, st, en, nm, chars) ==
    << Tok("pragma", "", <<>>),
       Tok("include", "", <<>>),
       Tok("font", "hand.ttf", <<>>),
       Tok("size", "", <<Dec(w), Dec(h)>>),
       Tok("chars", "", <<Hex02(st), Hex02(en), <<st>>, <<en>>>>),
       Tok("each", "", <<Dec(h * BytesPerRow(w)), Dec(h), Dec(BytesPerRow(w))>>),
       Tok("row", "", <<Dec(BytesPerRow(w)), Dec(w)>>),
       Tok("indexing", nm, <<Hex02(st), Hex02(st), Hex02(en)>>),
       Tok("generated", "", <<>>),
       Tok("decl", nm, <<Dec(en - st + 1), Dec(h * BytesPerRow(w))>>) >>
    \o TableTokens(chars)
    \o << Tok("end", "", <<>>) >>

\* what can be wrong with the structure of a hand-written file
MetadataDamages == {"no size", "bad size", "no range", "no name"}

ArrayDamages == {"no end", "cut"}

EntryDamages == {"no close"}

Damages == {"none"} \cup MetadataDamages \cup ArrayDamages \cup EntryDamages

\* the file with a line of its header missing or unreadable ("Size: x16
\* pixels"), without its final "};", cut off before the closing brace of its
\* last entry, or with the closing brace of its first entry missing
Damaged(content, damage) ==
    LET closes == {j \in 1..Len(content) : content[j].k = "close"}
        last == CHOOSE j \in closes : \A k \in closes : k <= j
    IN  CASE damage = "none" -> content
          [] damage = "no size" -> SelectSeq(content, LAMBDA t : t.k # "size")
          [] damage = "bad size" ->
                [j \in 1..Len(content) |->
                    IF content[j].k = "size"
                    THEN Tok("size", "", <<<<>>, content[j].f[2]>>)
                    ELSE content[j]]
          [] damage = "no range" -> SelectSeq(content, LAMBDA t : t.k # "chars")
          [] damage = "no name" -> SelectSeq(content, LAMBDA t : t.k # "decl")
          [] damage = "no end" -> SelectSeq(content, LAMBDA t : t.k # "end")
          [] damage = "cut" -> SubSeq(content, 1, last - 1)
          [] damage = "no close" ->
                SubSeq(content, 1, FirstIndex(closes) - 1)
                \o SubSeq(content, FirstIndex(closes) + 1, Len(content))

DecodeInit ==
    /\ pc = "file"
    /\ \E sz \in DecodeSizes, st \in DecodeStarts, damage \in Damages :
         \E en \in st..(st + MaxEntries), chars \in HandTables(sz[1], sz[2], st) :
            /\ damage \in {"cut", "no close"} => chars # <<>>
            /\ hand = Hand(sz[1], sz[2], st, en, chars, damage)
            /\ file = Damaged(HandFile(sz[1], sz[2], st, en, "hand_font", chars),
                              damage)
    /\ args = NoArgs
    /\ width = 0
    /\ height = 0
    /\ img = <<>>
    /\ rows = <<>>
    /\ byte_data = <<>>
    /\ lines = <<>>
    /\ preview_lines = <<>>
    /\ inline_rows = <<>>
    /\ display = <<>>
    /\ characters = <<>>
    /\ font_data = NoFontData
    /\ errors = <<>>
    /\ out = <<>>
    /\ rc = None
    /\ again = NoAgain
    /\ NoGame

SpecDecode == DecodeInit /\ [][DecoderNext]_vars

-----------------------------------------------------------------------------
(* Properties of the packing step, checked under SpecPack. *)

Packed == pc \in {"show", "shown"}

Foreground(x, y) == img[<<x, y>>] > Threshold

\* C1: unpacking the bytes of rows_to_bytes the way visualize_character does
\* (groups of bytes_per_row bytes, most significant first, bit width-1-x for
\* column x) gives back exactly the bit pattern of the row values.
C1_RoundTrip ==
    pc = "shown" =>
        /\ Len(lines) = Len(rows)
        /\ \A r \in 1..Len(rows) :
              /\ Len(lines[r]) = width
              /\ \A x \in 0..(width - 1) :
                    lines[r][x + 1] = TestBit(rows[r], width - 1 - x)

C1_Witness ==
    /\ pc = "shown"
    /\ width > 8
    /\ width % 8 # 0
    /\ \E r \in 1..Len(rows) : rows[r] >= 256 /\ rows[r] % 256 # 0

\* C23 as claimed: the bit of a pixel is 1 exactly when its value is above
\* the midpoint of the range 0..255, whatever its neighbour is.
C23_ThresholdAtMidpoint ==
    pc = "pack" =>
        \A x \in 0..(width - 1) :
            TestBit(rows[1], width - 1 - x) = (2 * img[<<x, 0>>] > MaxSample)

\* C23 as amended: the bit of a pixel is 1 exactly when its value is one of
\* 129..255 and 0 when it is one of 0..128, whatever its neighbour is.
C23_ThresholdAbove128 ==
    pc = "pack" =>
        \A x \in 0..(width - 1) :
            /\ img[<<x, 0>>] \in 129..255 => TestBit(rows[1], width - 1 - x)
            /\ img[<<x, 0>>] \in 0..128 => ~TestBit(rows[1], width - 1 - x)

C23_Witness ==
    /\ pc = "pack"
    /\ width = 2
    /\ img[<<0, 0>>] = 128
    /\ img[<<1, 0>>] = 255
    /\ rows = <<1>>

\* C24: render_character returns cell_height row values; in row y bit
\* cell_width - 1 - x is set iff pixel (x, y) is foreground, and no bit at
\* position cell_width or above is set.
C24_RowValues ==
    pc # "draw" =>
        /\ Len(rows) = height
        /\ \A y \in 0..(height - 1) :
              /\ rows[y + 1] \in 0..(Pow2(width) - 1)
              /\ \A x \in 0..(width - 1) :
                    TestBit(rows[y + 1], width - 1 - x) = Foreground(x, y)

C24_Witness ==
    /\ pc = "pack"
    /\ width > 8
    /\ height > 1
    /\ Foreground(0, 1)
    /\ \E x \in 1..(width - 1) : img[<<x, 1>>] = Threshold
    /\ rows = <<0, Pow2(width - 1)>>

\* C2: pixel (x, y) is stored in byte y*bytes_per_row + floor(x/8) at bit
\* 7 - (x mod 8), so the leftmost pixel of a row is bit 7 of its first byte.
C2_MsbLayout ==
    Packed =>
        \A x \in 0..(width - 1), y \in 0..(height - 1) :
            Foreground(x, y) =
                TestBit(byte_data[y * BytesPerRow(width) + (x \div 8) + 1], 7 - (x % 8))

\* C3: when cell_width is not a multiple of 8 the low-order
\* 8*bytes_per_row - cell_width bits of every row's last byte are 0.
C3_ZeroPadding ==
    (Packed /\ width % 8 # 0) =>
        \A y \in 1..height :
            byte_data[y * BytesPerRow(width)] % Pow2(8 * BytesPerRow(width) - width) = 0

\* C19: for any byte list, also one shorter or longer than height *
\* ceil(width / 8), the encoder's visualize_character, the decoder's
\* visualize_character and the side-by-side renderer of --all give the same
\* height x width grid of cells, each in its own two symbols.
C19_VisualizersAgree ==
    pc \in {"shown", "shown edited"} =>
        /\ Len(lines) = height /\ Len(preview_lines) = height /\ Len(inline_rows) = height
        /\ \A r \in 1..height :
              /\ Len(lines[r]) = width
              /\ Len(preview_lines[r]) = width
              /\ Len(inline_rows[r]) = 2 * (width + 1)
              /\ inline_rows[r][width + 1] = "space"
              /\ inline_rows[r][2 * (width + 1)] = "space"
              /\ \A x \in 1..width :
                    /\ preview_lines[r][x] \in {"#", "."}
                    /\ inline_rows[r][x] \in {"block", "dot"}
                    /\ lines[r][x] = (preview_lines[r][x] = "#")
                    /\ lines[r][x] = (inline_rows[r][x] = "block")
                    /\ inline_rows[r][width + 1 + x] = "dot"

C19_Witness ==
    /\ pc = "shown edited"
    /\ width > 8
    /\ Len(byte_data) < height * ((width + 7) \div 8)
    /\ \E r \in 1..height, x \in 1..width : lines[r][x]
    /\ \E r \in 1..height, x \in 1..width : ~lines[r][x]

-----------------------------------------------------------------------------
(* Properties of a run of the encoder followed by the decoder (Spec). *)

Written == file # <<>>

Parsed == font_data # NoFontData

TagsOf(content) == SelectSeq(content, LAMBDA t : t.k = "tag")

\* C4: the table returned by convert_ttf_to_rm690b0 has end - start + 1
\* glyphs and glyph i has code point start + i; the written table has the
\* same tags in the same order, and a run that fails writes no table.
C4_DenseTable ==
    /\ (pc \in {"preview", "generate"} \/ Written) =>
          /\ Len(characters) = args.end - args.start + 1
          /\ \A i \in 1..Len(characters) : characters[i].codepoint = args.start + (i - 1)
    /\ Written =>
          /\ Len(TagsOf(file)) = args.end - args.start + 1
          /\ \A i \in 1..Len(TagsOf(file)) :
                TagsOf(file)[i].f[1] = Hex02(args.start + (i - 1))
    /\ pc \in {"exit", "encoder raised"} => ~Written

C4_Witness ==
    /\ Written
    /\ Len(characters) >= 2

\* C5: every glyph of an encoder-produced table has exactly
\* cell_height * ceil(cell_width / 8) packed bytes.
C5_FixedGlyphSize ==
    \A i \in 1..Len(characters) :
        Len(characters[i].bytes) = args.height * ((args.width + 7) \div 8)

C5_Witness ==
    /\ Written
    /\ Len(characters) >= 2
    /\ args.width > 8
    /\ args.width % 8 # 0

\* C6: for every accepted configuration the written header parses without
\* error and test_font_file returns 0.
C6_EncoderOutputValidates ==
    (Written /\ pc \in {"returned", "decoder raised"}) => rc = 0

\* C7: parse_font_header returns the serialized width, height, range and
\* name and the same glyphs, code points and bytes, in order.
C7_ParseInvertsSerialize ==
    (Written /\ Parsed) =>
        font_data = FontData("", args.name, args.width, args.height,
                             args.start, args.end, characters)

\* C8: serializing what parse_font_header returned gives the original file
\* again (read generously: for some source font name handed to the
\* serializer, which the parse result does not carry).
C8_ReserializeIdentical ==
    (Written /\ Parsed) =>
        /\ font_data.err = ""
        /\ \E t \in Sources :
              GenerateHeaderFile(font_data.characters, font_data.name, font_data.width,
                                 font_data.height, font_data.char_start, t) = file

\* C17: a run of main with width or height outside 1..64, start outside
\* 0..0x10FFFF, end below start or end above 0x10FFFF goes from its first
\* step straight to exit status 1: the font is never looked for or loaded, no
\* code point is rasterized and no file is written.
C17_ConfigErrorsFatal ==
    (\/ args.width < 1 \/ args.width > 64
     \/ args.height < 1 \/ args.height > 64
     \/ args.start < 0 \/ args.start > 1114111
     \/ args.end < args.start \/ args.end > 1114111) =>
        /\ pc \in {"main", "exit"}
        /\ pc = "exit" => rc = 1
        /\ characters = <<>>
        /\ ~Written

C17_Witness ==
    /\ pc = "exit"
    /\ rc = 1
    /\ args.start <= 1114111
    /\ args.end > 1114111

\* the lookups made for --preview and --char, each with the table, the
\* range and the script it was made by
Lookups == {k \in 1..Len(display) : display[k].who \in {"preview", "char"}}

TableOf(e) == IF e.who = "preview" THEN characters ELSE font_data.characters

StartOf(e) == IF e.who = "preview" THEN args.start ELSE font_data.char_start

EndOf(e) == IF e.who = "preview" THEN args.end ELSE font_data.char_end

\* C18: a lookup of a code point within start..end finds and shows the
\* glyph at position code - start of the table; a lookup of any other code
\* point finds nothing and shows nothing, the decoder then returns 1 without
\* the success banner and the encoder goes on to write its file.
C18_LookupIsDenseIndex ==
    \A k \in Lookups :
        LET e == display[k]
        IN  IF StartOf(e) <= e.code /\ e.code <= EndOf(e)
            THEN /\ e.found
                 /\ e.glyph = TableOf(e)[e.code - StartOf(e) + 1]
                 /\ e.glyph.codepoint = e.code
                 /\ Len(e.shown) = (IF e.who = "preview" THEN args.height
                                    ELSE font_data.height)
            ELSE /\ ~e.found
                 /\ e.shown = <<>>
                 /\ e.who = "char" =>
                       /\ pc = "returned" /\ rc = 1
                       /\ \A j \in 1..Len(out) : out[j].kind # "success"
                 /\ e.who = "preview" => pc \notin {"exit", "preview raised"}

C18_Witness ==
    /\ pc = "returned"
    /\ \E k \in Lookups : display[k].who = "preview" /\ ~display[k].found
    /\ \E k \in Lookups :
          /\ display[k].who = "char"
          /\ display[k].found
          /\ display[k].code = font_data.char_end
          /\ font_data.char_end > font_data.char_start

\* C16: a rasterization failure for one code point is recorded and the run
\* goes on with the other code points; the run aborts on such a failure only
\* when no code point of the range could be rasterized.
C16_AbortOnlyIfAllFail ==
    pc = "encoder raised" => characters = <<>>

TokensOf(content, kind) == SelectSeq(content, LAMBDA t : t.k = kind)

\* the positions of the entries of the written table, and the number of
\* bytes between the braces of the entry at position i
EntriesOf(content) == {i \in 1..Len(content) : content[i].k = "tag"}

EntryLength(content, i) ==
    Cardinality({j \in (i + 1)..Len(content) :
                    /\ content[j].k = "byte"
                    /\ \A m \in i..j : content[m].k # "close"})

\* C25: in the written file the declared dimensions [N][B] are the number of
\* entries, end - start + 1, and the length of every entry,
\* cell_height * ceil(cell_width / 8); the range end of the header is the
\* last glyph's code point and the requested end.
C25_HeaderAgreesWithTable ==
    Written =>
        LET decl == TokensOf(file, "decl")[1]
            range == TokensOf(file, "chars")[1]
            each == TokensOf(file, "each")[1]
            N == FromDigits(decl.f[1], 10)
            B == FromDigits(decl.f[2], 10)
        IN  /\ Len(TokensOf(file, "decl")) = 1
            /\ N = args.end - args.start + 1
            /\ N = Cardinality(EntriesOf(file))
            /\ B = args.height * ((args.width + 7) \div 8)
            /\ \A i \in EntriesOf(file) : EntryLength(file, i) = B
            /\ FromDigits(each.f[1], 10) = B
            /\ FromDigits(range.f[1], 16) = args.start
            /\ FromDigits(range.f[2], 16) = characters[Len(characters)].codepoint
            /\ FromDigits(range.f[2], 16) = args.end

C25_Witness ==
    /\ Written
    /\ args.end > args.start
    /\ args.height > 1
    /\ args.width > 8
    /\ pc = "file"

\* C26: the character and code point that parse_font_header's loop reads
\* from the tag comment of an entry are the character and code point that
\* generate_header_file's loop wrote it for, for every code point.
C26_EscapingRoundTrips ==
    pc = "read" =>
        /\ Len(font_data.characters) = Len(characters)
        /\ \A i \in 1..Len(characters) :
              /\ font_data.characters[i].char = characters[i].char
              /\ font_data.characters[i].codepoint = characters[i].codepoint
              /\ font_data.characters[i].codepoint = font_data.characters[i].char[1]

C26_Witness ==
    /\ pc = "read"
    /\ Len(characters) = 2
    /\ characters[1].char = <<Quote>>
    /\ TagsOf(file)[1].f[2] = <<Quote, Backslash, Quote, Quote>>
    /\ font_data.characters[1].char = <<Quote>>

Previewed == \E k \in 1..Len(display) : display[k].who = "preview"

\* C27: the output is written only after every code point of the range has
\* been rendered and packed and after the preview step; a run that ends in
\* an exit or an exception before that has written nothing, and a preview
\* of a code point outside the range does not keep the output from being
\* written.
C27_NoPartialOutput ==
    /\ Written =>
          /\ Len(characters) = args.end - args.start + 1
          /\ \A i \in 1..Len(characters) :
                /\ characters[i].codepoint = args.start + (i - 1)
                /\ Len(characters[i].bytes) = args.height * BytesPerRow(args.width)
          /\ pc \notin {"main", "find font", "load font", "convert", "preview",
                        "generate"}
    /\ pc \in {"exit", "encoder raised", "preview raised"} => ~Written
    /\ Previewed => pc \notin {"exit", "encoder raised", "preview raised"}
    /\ (Previewed /\ pc # "generate") => Written

C27_Witness ==
    /\ pc = "file"
    /\ Written
    /\ Len(characters) >= 2
    /\ \E k \in 1..Len(display) : display[k].who = "preview" /\ ~display[k].found

-----------------------------------------------------------------------------
(* Properties of the decoder on hand-written files (SpecDecode). *)

Validated == pc \in {"display", "returned"} /\ font_data.err = ""

BadCount == Len(font_data.characters) # font_data.char_end - font_data.char_start + 1

BadSizes ==
    {i \in 1..Len(font_data.characters) :
        Len(font_data.characters[i].bytes)
            # font_data.height * ((font_data.width + 7) \div 8)}

BadSequence ==
    {i \in 1..Len(font_data.characters) :
        font_data.characters[i].codepoint # font_data.char_start + (i - 1)}

Least(S) == CHOOSE i \in S : \A k \in S : i <= k

KindsReported == [i \in 1..Len(errors) |-> errors[i].kind]

KindsViolated ==
    (IF BadCount THEN <<"count">> ELSE <<>>)
    \o (IF BadSizes # {} THEN <<"size">> ELSE <<>>)
    \o (IF BadSequence # {} THEN <<"sequence">> ELSE <<>>)

Finished == pc \in {"returned", "decoder raised"}

WellFormed == hand.damage = "none" /\ Len(hand.table) = hand.end - hand.start + 1

WrongTags == {i \in 1..Len(hand.table) : hand.table[i].codepoint # hand.start + (i - 1)}

WrongSizes ==
    {i \in 1..Len(hand.table) :
        Len(hand.table[i].bytes) # hand.height * ((hand.width + 7) \div 8)}

\* C10: whenever the number of parsed entries differs from the declared
\* range, test_font_file reports a count mismatch and returns 1.
C10_CountMismatchReported ==
    (Parsed /\ font_data.err = "" /\ BadCount /\ pc \in {"returned", "decoder raised"}) =>
        /\ rc = 1
        /\ \E i \in 1..Len(errors) : errors[i].kind = "count"

\* C11: for a table that is valid except that exactly one entry, at index
\* i, carries a tag other than start + i, test_font_file reports a sequence
\* break at index i with the tag found and the tag expected, and returns 1.
C11_SequenceBreakReported ==
    (Finished /\ WellFormed /\ WrongSizes = {} /\ Cardinality(WrongTags) = 1) =>
        LET i == Least(WrongTags)
        IN  /\ rc = 1
            /\ errors = <<Violation("sequence", i - 1, hand.table[i].codepoint,
                                    hand.start + (i - 1))>>
            /\ \E j \in 1..Len(out) : out[j] = errors[1]

\* C12: for a table that is valid except that exactly one entry has a byte
\* list of another length than height * ceil(width / 8), test_font_file
\* reports a size mismatch with that entry's code point, its length and the
\* expected length, and returns 1; also when the entry is the first one.
C12_SizeMismatchReported ==
    (Finished /\ WellFormed /\ WrongTags = {} /\ Cardinality(WrongSizes) = 1) =>
        LET i == Least(WrongSizes)
        IN  /\ rc = 1
            /\ errors = <<Violation("size", hand.table[i].codepoint,
                                    Len(hand.table[i].bytes),
                                    hand.height * ((hand.width + 7) \div 8))>>
            /\ \E j \in 1..Len(out) : out[j] = errors[1]

\* C13: a file with complete metadata and a located table body that holds
\* no entry ends in a reported empty-table failure and return code 1; it
\* neither succeeds nor ends in an exception nothing handles.
C13_EmptyTableReported ==
    (Finished /\ font_data.err = "" /\ font_data.characters = <<>>) =>
        /\ pc = "returned"
        /\ rc = 1
        /\ \E j \in 1..Len(out) : out[j].kind = "empty table"

\* C14: parse_font_header fails with the metadata error exactly when the
\* size, the range or the table name is absent or unreadable in the file;
\* never for a file that carries all three, whatever values the encoder can
\* emit.
C14_MetadataErrorExact ==
    Parsed => (font_data.err = "metadata" <=> hand.damage \in MetadataDamages)

\* C15: a file whose table body has no final "};" or whose entry has lost
\* its closing brace fails with the structural (array) error; the entry is
\* never merged with the next one, dropped, or reported as another kind.
C15_StructuralErrorReported ==
    (Parsed /\ hand.damage \in ArrayDamages \cup EntryDamages) =>
        /\ font_data.err = "array"
        /\ Finished => rc = 1

\* the glyphs test_font_file has drawn, for --char, --all or the samples
Rendered ==
    {j \in 1..Len(display) :
        /\ display[j].who \in {"char", "all", "all inline", "sample"}
        /\ display[j].found}

\* C22: test_font_file draws a glyph only after parsing succeeded and the
\* count, size and sequence checks all passed for the whole table.
C22_ValidationPrecedesVisualization ==
    Rendered # {} =>
        /\ font_data.err = ""
        /\ errors = <<>>
        /\ ~BadCount
        /\ BadSizes = {}
        /\ BadSequence = {}
        /\ \A kind \in {"count ok", "size ok", "sequence ok"} :
              \E j \in 1..Len(out) : out[j].kind = kind

C22_Witness ==
    /\ Rendered # {}
    /\ Len(font_data.characters) >= 2
    /\ \E j \in Rendered : display[j].who = "char"

Succeeded == \E j \in 1..Len(out) : out[j].kind = "success"

ChecksRan == font_data.err = "" /\ pc \in {"display", "display raised", "returned"}

\* C20: test_font_file returns 0 and prints the success banner only after a
\* parse without error and three checks without a violation; a parse error
\* is reported and returns 1, and a violation found by a check is reported
\* and returns 1 without the success banner.
C20_NoSilentRecovery ==
    /\ (rc = 0 \/ Succeeded) =>
          /\ rc = 0 /\ Succeeded /\ pc = "returned"
          /\ font_data.err = ""
          /\ ~BadCount /\ BadSizes = {} /\ BadSequence = {}
          /\ errors = <<>>
    /\ (Parsed /\ font_data.err # "") =>
          /\ pc = "returned" /\ rc = 1
          /\ out = <<Violation("parse error", 0, 0, 0)>>
    /\ (ChecksRan /\ (BadCount \/ BadSizes # {} \/ BadSequence # {})) =>
          /\ pc = "returned" /\ rc = 1
          /\ errors # <<>>
          /\ \A i \in 1..Len(errors) : \E j \in 1..Len(out) : out[j] = errors[i]

C20_Witness ==
    /\ pc = "returned"
    /\ rc = 1
    /\ font_data.err = ""
    /\ BadSequence # {}
    /\ ~BadCount
    /\ BadSizes = {}

-----------------------------------------------------------------------------
(* Properties of the snake game (SpecSnake, SpecScore). *)

\* C28: the direction a move applies is never the opposite of the direction
\* the previous move applied (DIR_RIGHT before the first move), however
\* often set_direction was called in between, and the new head is never the
\* cell of the segment that was directly behind the head.
C28_NeverReverses ==
    [][(pc = "input" /\ segments' # segments) =>
          /\ direction' = next_direction
          /\ direction' # Cell(0 - direction[1], 0 - direction[2])
          /\ segments'[1] # segments[2]]_vars

C28_Witness ==
    /\ pc = "input"
    /\ direction = DIR_LEFT
    /\ next_direction = DIR_UP
    /\ Len(segments) > 3

\* C29: the food lies in the grid and on no segment of the snake, after
\* the spawn at the start of a round and at the end of every frame, also of
\* a frame in which the head reached the food.
C29_FoodOnEmptyCell ==
    pc \in {"input", "game over"} =>
        /\ food[1] \in 0..(Cols - 1)
        /\ food[2] \in 0..(Rows - 1)
        /\ food \notin Occupied(segments)

C29_Witness ==
    /\ pc = "input"
    /\ eaten = 2
    /\ grow_pending = 1
    /\ food \notin Occupied(segments)
    /\ \E d \in Directions :
          food = Cell(segments[1][1] + d[1], segments[1][2] + d[2])

InRound == pc \in {"playing", "input", "game over"}

\* C30: in a round the score is SCORE_PER_FOOD times the number of foods
\* eaten, the running best is at least the score and at least the best
\* score passed in, the speed is the initial speed plus one increment per
\* food, capped at MAX_SPEED; over the rounds of main the session's best
\* score never decreases.
C30_ScoreBookkeeping ==
    /\ [](InRound =>
            /\ score = SCORE_PER_FOOD * eaten
            /\ local_best >= score
            /\ local_best >= best_score
            /\ speed <= MAX_SPEED
            /\ speed = Min(INITIAL_SPEED + SPEED_INCREMENT * eaten, MAX_SPEED))
    /\ [][best_score' >= best_score]_vars

C30_Witness ==
    /\ pc = "playing"
    /\ best_score > 0
    /\ eaten > (MAX_SPEED - INITIAL_SPEED) \div SPEED_INCREMENT
    /\ speed = MAX_SPEED
    /\ local_best = score
    /\ local_best > best_score

====
